---- MODULE Spec2Model ----
(***************************************************************************)
(* Webhook-triggered dialogue relay between the helpdesk (Chatwoot) and    *)
(* the assistant (Dify): the webhook handler, the Dialogue table, the      *)
(* Celery relay task with its retries, and its two linked continuations.   *)
(***************************************************************************)
EXTENDS Integers, Sequences, FiniteSets, TLC

VARIABLES
    rows,       \* the Dialogue table: a set of rows
    nextId,     \* next primary key the database hands out
    handlers,   \* one record per concurrently running webhook request
    jobs,       \* the Celery relay tasks, in enqueue order
    scheduled,  \* assistant conversation ids handed to delete_dify_conversation
    nEvents,    \* webhook requests received so far
    deletions,  \* what each scheduled delete_dify_conversation run ended in
    team_cache,        \* chatwoot_actions.team_cache: lower-cased name -> id
    last_update_time,  \* chatwoot_actions.last_update_time, in hours
    team_cache_lock,   \* asyncio.Lock: its holder (0 when free) and its waiters
    callers,    \* the coroutines that use the team cache
    now,        \* the wall clock, in hours
    listCalls,  \* GET /teams requests sent to the helpdesk so far
    nRequests   \* team-cache requests received so far

relayVars == <<rows, nextId, handlers, jobs, scheduled, nEvents, deletions>>

teamVars == <<team_cache, last_update_time, team_cache_lock, callers, now,
              listCalls, nRequests>>

vars == <<relayVars, teamVars>>

\* ------------------------------------------------------------------ bounds
MaxEvents   == 2      \* webhook requests per behaviour
NumHandlers == 2      \* webhook requests that may be in flight together
NumCallers  == 2      \* team-cache requests that may be in flight together
MaxRequests == 3      \* team-cache requests per behaviour
MaxTicks    == 3      \* clock ticks per behaviour
TickHours   == 12     \* hours per clock tick
StartClock  == 100    \* the clock's reading at start-up, in hours

\* -------------------------------------------------------- program constants
max_retries == 3      \* @celery.task(bind=True, max_retries=3, ...)
CacheHours  == 24     \* get_team_id: "> 24 * 3600" seconds

\* Python's None
Null == "<None>"

\* str(x) of an Optional value: str(None) is the four letters "None"
Str(x) == IF x = Null THEN "None" ELSE x

\* truth value of an Optional[str]: None and "" are false
Truthy(x) == x # Null /\ x # ""

\* int(s) raises ValueError unless s is a numeral
IsNumeral(s) == s \in {"1", "2"}

\* str.startswith on texts modelled as sequences of characters
StartsWith(s, p) == Len(s) >= Len(p) /\ SubSeq(s, 1, Len(p)) = p

\* the two sentinel texts of app.config
BOT_CONVERSATION_OPENED_MESSAGE_EXTERNAL == <<"O", "P">>
BOT_ERROR_MESSAGE_INTERNAL == <<"E", "R">>

\* str(None) as a text
NoneText == <<"N", "o", "n", "e">>

StrText(c) == IF c = <<Null>> THEN NoneText ELSE c

\* a guard that knows only the conversation-opened notice
IsSentinelOpenedOnly(text) ==
    StartsWith(text, BOT_CONVERSATION_OPENED_MESSAGE_EXTERNAL)

\* the guard at the top of process_message_with_dify
IsSentinel(text) ==
    \/ StartsWith(text, BOT_CONVERSATION_OPENED_MESSAGE_EXTERNAL)
    \/ StartsWith(text, BOT_ERROR_MESSAGE_INTERNAL)

\* ------------------------------------------------------------ data model
ConvIds   == {"1"}
Statuses  == {"open", "pending"}
Assignees == {Null, "7"}
DifyIds   == {"A1", "A2"}

\* a Dialogue row (created_at / updated_at carry no behaviour and are left out)
Dialogue(id, cw, dify, status, assignee) ==
    [id |-> id, cw |-> cw, dify |-> dify, status |-> status, assignee |-> assignee]

NoRow == Dialogue(0, Null, Null, Null, Null)

\* select(Dialogue).where(Dialogue.chatwoot_conversation_id == cw)
Matching(cw) == {r \in rows : r.cw = cw}

\* ------------------------------------------------------- assistant gateway
\* what the assistant's HTTP endpoint can answer to POST /chat-messages
HttpOutcomes ==
    [kind : {"ok"}, cid : {Null} \cup DifyIds, answer : {Null, "Hi"}]
    \cup [kind : {"404", "500", "transport", "crash"}, cid : {Null}, answer : {Null}]

\* a client that reports every 404 as conversation-not-found
send_chat_message_any_404(conversation_id, http) ==
    CASE http.kind = "ok" -> "return"
      [] http.kind = "404" -> "DifyConversationNotFoundError"
      [] http.kind = "500" -> "DifyApiError"
      [] http.kind = "transport" -> "DifyApiError"
      [] OTHER -> "Exception"

\* DifyClient.send_chat_message: the value returned or the exception raised
send_chat_message(conversation_id, http) ==
    CASE http.kind = "ok" -> "return"
      [] http.kind = "404" ->
            IF Truthy(conversation_id) THEN "DifyConversationNotFoundError"
            ELSE "DifyApiError"
      [] http.kind = "500" -> "DifyApiError"
      [] http.kind = "transport" -> "DifyApiError"
      [] OTHER -> "Exception"

\* ------------------------------------------------------------- relay task
NoResult      == [kind |-> "none", cid |-> Null, answer |-> Null]
NoneResult    == [kind |-> "None", cid |-> Null, answer |-> Null]
SkippedResult == [kind |-> "skipped", cid |-> Null, answer |-> Null]
Reply(http)   == [kind |-> "reply", cid |-> http.cid, answer |-> http.answer]

\* apply_async(args=[content, dify_conversation_id, chatwoot_conversation_id,
\* status, ...], link=handle_dify_response.s(conversation_id=...), link_error=...)
NewJob(msg, dify, cw, status, conv) ==
    [msg |-> msg, dify |-> dify, cw |-> cw, status |-> status, conv |-> conv,
     retries |-> 0, pc |-> "queued", newId |-> Null, target |-> 0,
     result |-> NoResult, exc |-> Null,
     calls |-> 0, lastHttp |-> "none",
     opens |-> 0, notes |-> 0, apologies |-> 0, relayed |-> 0, refused |-> FALSE,
     link |-> "none", posted |-> Null]

\* a retry policy that stops one retry early
CanRetryOneLess(job) == job.retries + 1 < max_retries

\* Task.retry(exc=...): while request.retries + 1 <= max_retries Celery raises
\* Retry and re-schedules the task; afterwards it raises exc itself
CanRetry(job) == job.retries + 1 <= max_retries

\* a facade that posts the internal note whatever the previous status was
toggle_status_sync_always_notes(job, noteOk) ==
    LET toggled == [job EXCEPT !.opens = @ + 1]
    IN  IF noteOk
        THEN [toggled EXCEPT !.notes = @ + 1]
        ELSE [toggled EXCEPT !.refused = TRUE]

\* ChatwootHandler.toggle_status_sync(status="open", previous_status=...,
\* is_error_transition=True): the status call, then the private note
toggle_status_sync(job, noteOk) ==
    LET toggled == [job EXCEPT !.opens = @ + 1]
    IN  IF job.status = "pending"
        THEN IF noteOk
             THEN [toggled EXCEPT !.notes = @ + 1]
             ELSE [toggled EXCEPT !.refused = TRUE]
        ELSE toggled

\* a handler without the inner try: a failing cleanup call ends the task with
\* the cleanup's error
FailurePathUnprotected(job, toggleOk, noteOk, sendOk) ==
    IF ~Truthy(job.cw) THEN job
    ELSE IF ~IsNumeral(job.cw) THEN [job EXCEPT !.pc = "FAILURE", !.exc = "ValueError"]
    ELSE IF ~toggleOk
    THEN [job EXCEPT !.refused = TRUE, !.pc = "FAILURE", !.exc = "HTTPStatusError"]
    ELSE LET t == toggle_status_sync(job, noteOk)
         IN  IF sendOk
             THEN [t EXCEPT !.apologies = @ + 1]
             ELSE [t EXCEPT !.refused = TRUE, !.pc = "FAILURE",
                            !.exc = "HTTPStatusError"]

\* the body of "except Exception as e" up to the re-raise
FailurePath(job, toggleOk, noteOk, sendOk) ==
    IF ~Truthy(job.cw) THEN job
    ELSE IF ~IsNumeral(job.cw) THEN job
    ELSE IF ~toggleOk THEN [job EXCEPT !.refused = TRUE]
    ELSE LET t == toggle_status_sync(job, noteOk)
         IN  IF sendOk
             THEN [t EXCEPT !.apologies = @ + 1]
             ELSE [t EXCEPT !.refused = TRUE]

\* a task that records the assistant's conversation id for every job that has
\* a helpdesk conversation id, and apologises whether or not it has one
AttemptUpdatesAlways(job, http, toggleOk, noteOk, sendOk) ==
    IF job.msg = <<Null>>
    THEN [job EXCEPT !.pc = "FAILURE", !.exc = "AttributeError"]
    ELSE IF IsSentinel(job.msg)
    THEN [job EXCEPT !.pc = "SUCCESS", !.result = SkippedResult]
    ELSE
    LET outcome == send_chat_message(job.dify, http)
        called  == [job EXCEPT !.calls = @ + 1, !.lastHttp = http.kind]
    IN  CASE outcome = "return" ->
                IF Truthy(job.cw)
                THEN IF Truthy(http.cid)
                     THEN [called EXCEPT !.pc = "update_read", !.newId = http.cid,
                                         !.result = Reply(http)]
                     ELSE IF CanRetry(job)
                          THEN FailurePath([called EXCEPT !.retries = @ + 1],
                                           toggleOk, noteOk, sendOk)
                          ELSE FailurePath([called EXCEPT !.pc = "FAILURE",
                                                          !.exc = "RuntimeError"],
                                           toggleOk, noteOk, sendOk)
                ELSE [called EXCEPT !.pc = "SUCCESS", !.result = Reply(http)]
          [] outcome = "DifyConversationNotFoundError" ->
                IF CanRetry(job)
                THEN [called EXCEPT !.retries = @ + 1]
                ELSE [called EXCEPT !.pc = "FAILURE",
                                    !.exc = "DifyConversationNotFoundError"]
          [] outcome = "DifyApiError" ->
                [called EXCEPT !.pc = "SUCCESS", !.result = NoneResult]
          [] OTHER ->
                [called EXCEPT !.pc = "FAILURE", !.exc = "Exception",
                               !.opens = @ + 1, !.apologies = @ + 1]

\* one execution of process_message_with_dify up to the store update
Attempt(job, http, toggleOk, noteOk, sendOk) ==
    IF job.msg = <<Null>>
    THEN [job EXCEPT !.pc = "FAILURE", !.exc = "AttributeError"]
    ELSE IF IsSentinel(job.msg)
    THEN [job EXCEPT !.pc = "SUCCESS", !.result = SkippedResult]
    ELSE
    LET outcome == send_chat_message(job.dify, http)
        called  == [job EXCEPT !.calls = @ + 1, !.lastHttp = http.kind]
    IN  CASE outcome = "return" ->
                IF ~Truthy(job.dify) /\ Truthy(job.cw)
                THEN IF Truthy(http.cid)
                     THEN [called EXCEPT !.pc = "update_read", !.newId = http.cid,
                                         !.result = Reply(http)]
                     ELSE IF CanRetry(job)
                          THEN FailurePath([called EXCEPT !.retries = @ + 1],
                                           toggleOk, noteOk, sendOk)
                          ELSE FailurePath([called EXCEPT !.pc = "FAILURE",
                                                          !.exc = "RuntimeError"],
                                           toggleOk, noteOk, sendOk)
                ELSE [called EXCEPT !.pc = "SUCCESS", !.result = Reply(http)]
          [] outcome = "DifyConversationNotFoundError" ->
                IF CanRetry(job)
                THEN [called EXCEPT !.retries = @ + 1]
                ELSE [called EXCEPT !.pc = "FAILURE",
                                    !.exc = "DifyConversationNotFoundError"]
          [] outcome = "DifyApiError" ->
                [called EXCEPT !.pc = "SUCCESS", !.result = NoneResult]
          [] OTHER ->
                FailurePath([called EXCEPT !.pc = "FAILURE", !.exc = "Exception"],
                            toggleOk, noteOk, sendOk)

JobIds == 1..Len(jobs)

\* a worker that also runs a task again after it has failed
process_message_with_dify_redelivered(j, http, toggleOk, noteOk, sendOk) ==
    /\ jobs[j].pc \in {"queued", "FAILURE"}
    /\ jobs' = [jobs EXCEPT ![j] = Attempt([@ EXCEPT !.pc = "queued"],
                                           http, toggleOk, noteOk, sendOk)]
    /\ UNCHANGED <<rows, nextId, handlers, scheduled, nEvents, deletions, teamVars>>

\* one execution of the task by a worker; http is the assistant's answer and
\* toggleOk, noteOk, sendOk say whether the helpdesk accepts each call
process_message_with_dify(j, http, toggleOk, noteOk, sendOk) ==
    /\ jobs[j].pc = "queued"
    /\ jobs' = [jobs EXCEPT ![j] = Attempt(@, http, toggleOk, noteOk, sendOk)]
    /\ UNCHANGED <<rows, nextId, handlers, scheduled, nEvents, deletions, teamVars>>

\* the query without the "only if it's not already set" test
update_dialogue_dify_id_read_unguarded(j) ==
    /\ jobs[j].pc = "update_read"
    /\ IF Matching(jobs[j].cw) = {}
       THEN jobs' = [jobs EXCEPT ![j].pc = "SUCCESS"]
       ELSE \E dialogue \in Matching(jobs[j].cw) :
               jobs' = [jobs EXCEPT ![j].pc = "update_commit",
                                    ![j].target = dialogue.id]
    /\ UNCHANGED <<rows, nextId, handlers, scheduled, nEvents, deletions, teamVars>>

\* update_dialogue_dify_id_sync, the query and the test of the field
update_dialogue_dify_id_read(j) ==
    /\ jobs[j].pc = "update_read"
    /\ IF Matching(jobs[j].cw) = {}
       THEN jobs' = [jobs EXCEPT ![j].pc = "SUCCESS"]
       ELSE \E dialogue \in Matching(jobs[j].cw) :
               IF ~Truthy(dialogue.dify)
               THEN jobs' = [jobs EXCEPT ![j].pc = "update_commit",
                                         ![j].target = dialogue.id]
               ELSE jobs' = [jobs EXCEPT ![j].pc = "SUCCESS"]
    /\ UNCHANGED <<rows, nextId, handlers, scheduled, nEvents, deletions, teamVars>>

\* a commit that is lost: the row keeps what it had
update_dialogue_dify_id_commit_lost(j) ==
    /\ jobs[j].pc = "update_commit"
    /\ jobs' = [jobs EXCEPT ![j].pc = "SUCCESS", ![j].target = 0]
    /\ UNCHANGED <<rows, nextId, handlers, scheduled, nEvents, deletions, teamVars>>

\* update_dialogue_dify_id_sync, the assignment and db.commit()
update_dialogue_dify_id_commit(j) ==
    /\ jobs[j].pc = "update_commit"
    /\ rows' = {IF r.id = jobs[j].target THEN [r EXCEPT !.dify = jobs[j].newId] ELSE r
                : r \in rows}
    /\ jobs' = [jobs EXCEPT ![j].pc = "SUCCESS", ![j].target = 0]
    /\ UNCHANGED <<nextId, handlers, scheduled, nEvents, deletions, teamVars>>

\* DifyResponse.error_response().answer, the apologetic default text
error_response == "I apologize"

\* DifyResponse(**dify_result) validates: a dict with an answer
ValidDifyResponse(result) == result.kind = "reply" /\ result.answer # Null

\* a continuation that logs a delivery failure and ends normally
handle_dify_response_swallows(j, sendOk) ==
    LET job == jobs[j]
    IN  /\ job.pc = "SUCCESS"
        /\ job.link = "none"
        /\ jobs' = [jobs EXCEPT ![j] =
                      IF ~ValidDifyResponse(job.result)
                      THEN [job EXCEPT !.link = "failed"]
                      ELSE IF job.conv # Null /\ sendOk
                      THEN [job EXCEPT !.relayed = @ + 1, !.link = "ok",
                                       !.posted = job.result.answer]
                      ELSE [job EXCEPT !.link = "ok", !.refused = TRUE]]
        /\ UNCHANGED <<rows, nextId, handlers, scheduled, nEvents, deletions, teamVars>>

\* the linked success continuation
handle_dify_response(j, sendOk) ==
    LET job == jobs[j]
    IN  /\ job.pc = "SUCCESS"
        /\ job.link = "none"
        /\ jobs' = [jobs EXCEPT ![j] =
                      IF ~ValidDifyResponse(job.result)
                      THEN [job EXCEPT !.link = "failed"]
                      ELSE IF job.conv # Null /\ sendOk
                      THEN [job EXCEPT !.relayed = @ + 1, !.link = "ok",
                                       !.posted = job.result.answer]
                      ELSE [job EXCEPT !.link = "failed", !.refused = TRUE]]
        /\ UNCHANGED <<rows, nextId, handlers, scheduled, nEvents, deletions, teamVars>>

\* an error continuation that posts the apology itself
handle_dify_error_notifies(j) ==
    /\ jobs[j].pc = "FAILURE"
    /\ jobs[j].link = "none"
    /\ jobs' = [jobs EXCEPT ![j].link = "logged", ![j].apologies = @ + 1]
    /\ UNCHANGED <<rows, nextId, handlers, scheduled, nEvents, deletions, teamVars>>

\* the linked error continuation: logging only
handle_dify_error(j) ==
    /\ jobs[j].pc = "FAILURE"
    /\ jobs[j].link = "none"
    /\ jobs' = [jobs EXCEPT ![j].link = "logged"]
    /\ UNCHANGED <<rows, nextId, handlers, scheduled, nEvents, deletions, teamVars>>

\* what the assistant's HTTP endpoint can answer to DELETE /conversations/{id}
DeleteOutcomes == {"ok", "404", "500", "transport"}

\* DifyClient.delete_conversation: the value returned or the exception raised
delete_conversation(http) ==
    CASE http = "ok" -> "return"
      [] http = "404" -> "DifyConversationNotFoundError"
      [] OTHER -> "DifyApiError"

\* a deletion task that re-raises conversation-not-found
delete_dify_conversation_strict(http) ==
    /\ Len(deletions) < Len(scheduled)
    /\ deletions' = Append(deletions,
          [id |-> scheduled[Len(deletions) + 1],
           raised |-> delete_conversation(http) # "return",
           status |-> IF delete_conversation(http) = "return"
                      THEN "success" ELSE delete_conversation(http)])
    /\ UNCHANGED <<rows, nextId, handlers, jobs, scheduled, nEvents, teamVars>>

\* delete_dify_conversation, run as a background task after the response was
\* sent: the next scheduled id is deleted at the assistant
delete_dify_conversation(http) ==
    /\ Len(deletions) < Len(scheduled)
    /\ deletions' = Append(deletions,
          [id |-> scheduled[Len(deletions) + 1],
           raised |-> delete_conversation(http) = "DifyApiError",
           status |-> CASE delete_conversation(http) = "return" -> "success"
                        [] delete_conversation(http) = "DifyConversationNotFoundError"
                              -> "not_found"
                        [] OTHER -> "DifyApiError"])
    /\ UNCHANGED <<rows, nextId, handlers, jobs, scheduled, nEvents, teamVars>>

\* ---------------------------------------------------------- webhook input
\* ChatwootConversation, and the value of an absent Optional conversation
NoConv == [present |-> FALSE, id |-> Null, status |-> Null, assignee |-> Null]
Convs  ==
    {c \in [present : {TRUE}, id : ConvIds, status : Statuses, assignee : Assignees] :
        c.status = "pending" <=> c.assignee = "7"}

\* texts a message can carry
Contents ==
    { <<"H", "i">>,
      <<"O", "P", "x">>,
      <<"E", "R">>,
      <<Null>> }

\* the validated ChatwootWebhook envelopes the model feeds to the handler;
\* message is the nested message's conversation (NoConv when there is no message)
MessageEnvelopes ==
    { [event |-> "message_created", sender_type |-> st, content |-> c,
       message |-> m, conversation |-> cv] :
         st \in {"user", "agent_bot"}, c \in Contents,
         m \in Convs, cv \in {NoConv} \cup Convs }

ConversationEnvelopes ==
    { [event |-> e, sender_type |-> Null, content |-> <<Null>>,
       message |-> NoConv, conversation |-> cv] :
         e \in {"conversation_created", "conversation_updated",
                "conversation_deleted", "conversation_status_changed"},
         cv \in {NoConv} \cup Convs }

Envelopes ==
    {w \in MessageEnvelopes : w.conversation \in {NoConv, w.message}}
    \cup ConversationEnvelopes

\* ChatwootWebhook.conversation_id
conversation_id(w) ==
    IF w.message.present THEN w.message.id
    ELSE IF w.conversation.present THEN w.conversation.id
    ELSE Null

\* ChatwootWebhook.assignee_id
assignee_id(w) ==
    IF w.message.present THEN w.message.assignee
    ELSE IF w.conversation.present THEN w.conversation.assignee
    ELSE Null

\* ChatwootWebhook.status: read from the top-level conversation only
status(w) == IF w.conversation.present THEN w.conversation.status ELSE Null

\* ChatwootWebhook.to_dialogue_create
to_dialogue_create(w) ==
    [cw |-> Str(conversation_id(w)),
     status |-> IF Truthy(status(w)) THEN status(w) ELSE "open",
     assignee |-> assignee_id(w)]

\* a content filter that knows only the conversation-opened notice
SkipsMessageOpenedOnly(w) ==
    StartsWith(StrText(w.content), BOT_CONVERSATION_OPENED_MESSAGE_EXTERNAL)

\* the content filter of the message_created branch, on str(content)
SkipsMessage(w) ==
    \/ StartsWith(StrText(w.content), BOT_CONVERSATION_OPENED_MESSAGE_EXTERNAL)
    \/ StartsWith(StrText(w.content), BOT_ERROR_MESSAGE_INTERNAL)

\* -------------------------------------------------------- webhook handler
NoRequest ==
    [event |-> "none", sender_type |-> Null, content |-> <<Null>>,
     message |-> NoConv, conversation |-> NoConv]

\* the JSON body a request is answered with (HTTP 500 for an HTTPException or
\* an unhandled error)
Response(st, reason, id) == [status |-> st, reason |-> reason, dialogue_id |-> id]

IdleHandler ==
    [pc |-> "idle", req |-> NoRequest, found |-> NoRow,
     resp |-> Response("none", "none", 0), notified |-> 0]

Handlers == 1..NumHandlers

\* a handler that returned: the response it gave stays readable
Returned(h, st, reason) ==
    [pc |-> "idle", req |-> NoRequest, found |-> NoRow, resp |-> Response(st, reason, 0),
     notified |-> handlers[h].notified]

\* the "except Exception" branch of message_created, or an unhandled error
\* of another branch: one best-effort public notice, then HTTP 500
Failed(h, w, sendOk) ==
    [pc |-> "idle", req |-> NoRequest, found |-> NoRow,
     resp |-> Response("500", "Failed to process webhook event", 0),
     notified |-> IF w.event = "message_created" /\ conversation_id(w) # Null /\ sendOk
                  THEN handlers[h].notified + 1
                  ELSE handlers[h].notified]

\* scalar_one_or_none(): the row, None, or MultipleResultsFound
SelectDialogue(h, w, cw, sendOk) ==
    IF Cardinality(Matching(cw)) > 1
    THEN handlers' = [handlers EXCEPT ![h] = Failed(h, w, sendOk)]
    ELSE \E r \in (IF Matching(cw) = {} THEN {NoRow} ELSE Matching(cw)) :
            handlers' = [handlers EXCEPT ![h] =
                           [pc |-> "selected", req |-> w, found |-> r,
                            resp |-> Response("none", "none", 0),
                            notified |-> @.notified]]

\* a handler that takes every other event for a conversation update
chatwoot_webhook_upserts_others(h, w, sendOk) ==
    /\ handlers[h].pc = "idle"
    /\ nEvents < MaxEvents
    /\ nEvents' = nEvents + 1
    /\ CASE w.event = "message_created" ->
                IF w.sender_type \in {"agent_bot", "????"}
                THEN handlers' = [handlers EXCEPT ![h] =
                                    Returned(h, "skipped", "agent_bot message")]
                ELSE IF SkipsMessage(w)
                THEN handlers' = [handlers EXCEPT ![h] =
                                    Returned(h, "skipped", "agent_bot status/error message")]
                ELSE SelectDialogue(h, w, to_dialogue_create(w).cw, sendOk)
          [] w.event \in {"conversation_created", "conversation_updated"} ->
                IF ~w.conversation.present
                THEN handlers' = [handlers EXCEPT ![h] =
                                    Returned(h, "skipped", "no conversation data")]
                ELSE SelectDialogue(h, w, to_dialogue_create(w).cw, sendOk)
          [] w.event = "conversation_deleted" ->
                IF ~w.conversation.present
                THEN handlers' = [handlers EXCEPT ![h] =
                                    Returned(h, "skipped", "no conversation data")]
                ELSE SelectDialogue(h, w, Str(w.conversation.id), sendOk)
          [] OTHER ->
                IF ~w.conversation.present
                THEN handlers' = [handlers EXCEPT ![h] =
                                    Returned(h, "skipped", "no conversation data")]
                ELSE SelectDialogue(h, w, to_dialogue_create(w).cw, sendOk)
    /\ UNCHANGED <<rows, nextId, jobs, scheduled, deletions, teamVars>>

\* chatwoot_webhook from the validated envelope to the first database query
chatwoot_webhook(h, w, sendOk) ==
    /\ handlers[h].pc = "idle"
    /\ nEvents < MaxEvents
    /\ nEvents' = nEvents + 1
    /\ CASE w.event = "message_created" ->
                IF w.sender_type \in {"agent_bot", "????"}
                THEN handlers' = [handlers EXCEPT ![h] =
                                    Returned(h, "skipped", "agent_bot message")]
                ELSE IF SkipsMessage(w)
                THEN handlers' = [handlers EXCEPT ![h] =
                                    Returned(h, "skipped", "agent_bot status/error message")]
                ELSE SelectDialogue(h, w, to_dialogue_create(w).cw, sendOk)
          [] w.event \in {"conversation_created", "conversation_updated"} ->
                IF ~w.conversation.present
                THEN handlers' = [handlers EXCEPT ![h] =
                                    Returned(h, "skipped", "no conversation data")]
                ELSE SelectDialogue(h, w, to_dialogue_create(w).cw, sendOk)
          [] w.event = "conversation_deleted" ->
                IF ~w.conversation.present
                THEN handlers' = [handlers EXCEPT ![h] =
                                    Returned(h, "skipped", "no conversation data")]
                ELSE SelectDialogue(h, w, Str(w.conversation.id), sendOk)
          [] OTHER ->
                handlers' = [handlers EXCEPT ![h] = Returned(h, "success", w.event)]
    /\ UNCHANGED <<rows, nextId, jobs, scheduled, deletions, teamVars>>

\* an upsert that inserts whatever the query found
get_or_create_dialogue_insert_only(h) ==
    LET data == to_dialogue_create(handlers[h].req)
    IN  /\ rows' = rows \cup {Dialogue(nextId, data.cw, Null, data.status, data.assignee)}
        /\ nextId' = nextId + 1

\* get_or_create_dialogue after the query: update in place or insert, commit
get_or_create_dialogue(h) ==
    LET w        == handlers[h].req
        data     == to_dialogue_create(w)
        dialogue == handlers[h].found
    IN  IF dialogue # NoRow
        THEN /\ rows' = {IF r.id = dialogue.id
                         THEN [r EXCEPT !.cw = data.cw, !.status = data.status,
                                        !.assignee = data.assignee]
                         ELSE r : r \in rows}
             /\ nextId' = nextId
        ELSE /\ rows' = rows \cup {Dialogue(nextId, data.cw, Null, data.status,
                                            data.assignee)}
             /\ nextId' = nextId + 1

\* the row as db.refresh(dialogue) reads it back after the commit
Refreshed(h) ==
    LET id == IF handlers[h].found # NoRow THEN handlers[h].found.id ELSE nextId
    IN  CHOOSE r \in rows' : r.id = id

\* the row the handler loaded is still in the table (else the ORM's UPDATE
\* matches no row and raises StaleDataError)
StillThere(h) == handlers[h].found = NoRow \/ \E r \in rows : r.id = handlers[h].found.id

\* message_created: upsert, then apply_async with the two links
MessageCreatedCommit(h, brokerOk, sendOk) ==
    LET w == handlers[h].req
    IN  /\ handlers[h].pc = "selected"
        /\ w.event = "message_created"
        /\ IF ~StillThere(h)
           THEN /\ handlers' = [handlers EXCEPT ![h] = Failed(h, w, sendOk)]
                /\ UNCHANGED <<rows, nextId, jobs>>
           ELSE /\ get_or_create_dialogue(h)
                /\ IF brokerOk
                   THEN /\ jobs' = Append(jobs,
                                     NewJob(w.content, Refreshed(h).dify,
                                            Refreshed(h).cw, Refreshed(h).status,
                                            conversation_id(w)))
                        /\ handlers' = [handlers EXCEPT ![h] =
                                          Returned(h, "processing", "none")]
                   ELSE /\ jobs' = jobs
                        /\ handlers' = [handlers EXCEPT ![h] = Failed(h, w, sendOk)]
        /\ UNCHANGED <<scheduled, nEvents, deletions, teamVars>>

\* an upsert branch that also hands the event to the relay
ConversationUpsertCommitEnqueues(h) ==
    LET w == handlers[h].req
    IN  /\ handlers[h].pc = "selected"
        /\ w.event \in {"conversation_created", "conversation_updated"}
        /\ get_or_create_dialogue(h)
        /\ handlers' = [handlers EXCEPT ![h] =
                          [Returned(h, "success", "dialogue_id")
                             EXCEPT !.resp.dialogue_id = Refreshed(h).id]]
        /\ jobs' = Append(jobs, NewJob(w.content, Refreshed(h).dify, Refreshed(h).cw,
                                       Refreshed(h).status, conversation_id(w)))
        /\ UNCHANGED <<scheduled, nEvents, deletions, teamVars>>

\* conversation_created / conversation_updated: upsert only
ConversationUpsertCommit(h) ==
    LET w == handlers[h].req
    IN  /\ handlers[h].pc = "selected"
        /\ w.event \in {"conversation_created", "conversation_updated"}
        /\ IF ~StillThere(h)
           THEN /\ handlers' = [handlers EXCEPT ![h] = Failed(h, w, FALSE)]
                /\ UNCHANGED <<rows, nextId>>
           ELSE /\ get_or_create_dialogue(h)
                /\ handlers' = [handlers EXCEPT ![h] =
                                  [Returned(h, "success", "dialogue_id")
                                     EXCEPT !.resp.dialogue_id = Refreshed(h).id]]
        /\ UNCHANGED <<jobs, scheduled, nEvents, deletions, teamVars>>

\* a deletion branch that schedules the assistant-side deletion for every row
add_task_always(dialogue_to_delete) == Append(scheduled, dialogue_to_delete.dify)

\* background_tasks.add_task(tasks.delete_dify_conversation, ...), done only
\* for a row with an assistant conversation id
add_task(dialogue_to_delete) ==
    IF Truthy(dialogue_to_delete.dify)
    THEN Append(scheduled, dialogue_to_delete.dify)
    ELSE scheduled

\* a deletion branch that treats a missing Dialogue as an error
ConversationDeletedCommitStrict(h) ==
    LET w == handlers[h].req
        dialogue_to_delete == handlers[h].found
    IN  /\ handlers[h].pc = "selected"
        /\ w.event = "conversation_deleted"
        /\ IF dialogue_to_delete = NoRow
           THEN /\ handlers' = [handlers EXCEPT ![h] = Failed(h, w, FALSE)]
                /\ UNCHANGED <<rows, scheduled>>
           ELSE /\ rows' = {r \in rows : r.id # dialogue_to_delete.id}
                /\ scheduled' = add_task(dialogue_to_delete)
                /\ handlers' = [handlers EXCEPT ![h] =
                                  Returned(h, "success", "scheduled for deletion")]
        /\ UNCHANGED <<nextId, jobs, nEvents, deletions, teamVars>>

\* conversation_deleted: schedule the assistant-side deletion, delete the row
\* (a DELETE that matches no row any more is only warned about by the ORM)
ConversationDeletedCommit(h) ==
    LET w == handlers[h].req
        dialogue_to_delete == handlers[h].found
    IN  /\ handlers[h].pc = "selected"
        /\ w.event = "conversation_deleted"
        /\ IF dialogue_to_delete = NoRow
           THEN /\ handlers' = [handlers EXCEPT ![h] =
                                  Returned(h, "skipped", "dialogue not found")]
                /\ UNCHANGED <<rows, scheduled>>
           ELSE /\ rows' = {r \in rows : r.id # dialogue_to_delete.id}
                /\ scheduled' = add_task(dialogue_to_delete)
                /\ handlers' = [handlers EXCEPT ![h] =
                                  Returned(h, "success", "scheduled for deletion")]
        /\ UNCHANGED <<nextId, jobs, nEvents, deletions, teamVars>>

\* --------------------------------------------------------------- team cache
\* team names as callers and the helpdesk spell them
TeamNames == {"Sales", "sales", "ops"}

\* str.lower()
Lower(name) == IF name = "Sales" THEN "sales" ELSE IF name = "Ops" THEN "ops" ELSE name

\* the team lists the helpdesk can answer GET /teams with (a team's id is
\* written as text; nothing computes with it)
ServerTeams ==
    { {},
      {[name |-> "Sales", id |-> "1"]},
      {[name |-> "Sales", id |-> "1"], [name |-> "Ops", id |-> "2"]} }

\* the list AdminService.get_teams falls back to
HardcodedTeams ==
    { [name |-> "urgent", id |-> "3"], [name |-> "consultants", id |-> "4"],
      [name |-> "mobilisation", id |-> "5"], [name |-> "deserters", id |-> "6"] }

\* what one GET /teams can end in: a list, a non-2xx status, a transport error,
\* or a body that is not a list of teams
TeamOutcomes ==
    [kind : {"ok"}, teams : ServerTeams]
    \cup [kind : {"HTTPStatusError", "RequestError", "Exception"}, teams : {{}}]

\* AdminService.get_teams: the list returned, or the exception raised
get_teams(outcome) ==
    CASE outcome.kind = "ok" -> [raised |-> FALSE, teams |-> outcome.teams]
      [] outcome.kind \in {"HTTPStatusError", "RequestError"} ->
            [raised |-> FALSE, teams |-> HardcodedTeams]
      [] OTHER -> [raised |-> TRUE, teams |-> {}]

\* {team["name"].lower(): team["id"] for team in teams}
NewCache(teams) ==
    [n \in {Lower(t.name) : t \in teams} |->
        (CHOOSE t \in teams : Lower(t.name) = n).id]

\* team_cache.get(team_name.lower())
CacheGet(cache, team_name) ==
    IF Lower(team_name) \in DOMAIN cache THEN cache[Lower(team_name)] ELSE Null

\* the test of get_team_id: an empty cache, or one older than 24 hours
NeedsUpdate == DOMAIN team_cache = {} \/ now - last_update_time > CacheHours

Callers == 1..NumCallers

\* caller 0 is the lifespan coroutine of the application's start-up
Lifespan == 0

NoAnswer == [kind |-> "none", value |-> Null]

IdleCaller == [pc |-> "idle", op |-> "none", name |-> Null, resp |-> NoAnswer]

Started == callers[Lifespan].pc = "idle"

\* an entry that does not wait for the lock
AcquireUnguarded(c, op, name) ==
    /\ team_cache_lock' = [team_cache_lock EXCEPT !.holder = c]
    /\ callers' = [callers EXCEPT ![c] = [pc |-> "fetching", op |-> op,
                                          name |-> name, resp |-> NoAnswer]]
    /\ listCalls' = listCalls + 1

\* "async with team_cache_lock" on entry: take a free lock and send GET /teams,
\* or queue behind the holder
Acquire(c, op, name) ==
    IF team_cache_lock.holder = 0
    THEN /\ team_cache_lock' = [team_cache_lock EXCEPT !.holder = c]
         /\ callers' = [callers EXCEPT ![c] = [pc |-> "fetching", op |-> op,
                                               name |-> name, resp |-> NoAnswer]]
         /\ listCalls' = listCalls + 1
    ELSE /\ team_cache_lock' = [team_cache_lock EXCEPT !.waiters = Append(@, c)]
         /\ callers' = [callers EXCEPT ![c] = [pc |-> "waiting", op |-> op,
                                               name |-> name, resp |-> NoAnswer]]
         /\ listCalls' = listCalls

\* the application starts: the lifespan refreshes the cache, if the framework
\* runs a router's lifespan at all
lifespan(runs) ==
    /\ callers[Lifespan].pc = "init"
    /\ IF runs
       THEN Acquire(Lifespan, "lifespan", Null)
       ELSE /\ callers' = [callers EXCEPT ![Lifespan] = IdleCaller]
            /\ UNCHANGED <<team_cache_lock, listCalls>>
    /\ UNCHANGED <<team_cache, last_update_time, now, nRequests, relayVars>>

\* get_team_id up to its first suspension
get_team_id(c, team_name) ==
    /\ Started
    /\ callers[c].pc = "idle"
    /\ nRequests < MaxRequests
    /\ nRequests' = nRequests + 1
    /\ IF NeedsUpdate
       THEN Acquire(c, "get_team_id", team_name)
       ELSE /\ callers' = [callers EXCEPT ![c] =
                             [IdleCaller EXCEPT !.resp =
                                [kind |-> "id", value |-> CacheGet(team_cache, team_name)]]]
            /\ UNCHANGED <<team_cache_lock, listCalls>>
    /\ UNCHANGED <<team_cache, last_update_time, now, relayVars>>

\* a refresh endpoint that looks at the cache's age first, as get_team_id does
refresh_teams_cache_endpoint_if_stale(c) ==
    /\ Started
    /\ callers[c].pc = "idle"
    /\ nRequests < MaxRequests
    /\ nRequests' = nRequests + 1
    /\ IF NeedsUpdate
       THEN Acquire(c, "refresh_teams", Null)
       ELSE /\ callers' = [callers EXCEPT ![c] =
                             [IdleCaller EXCEPT !.resp =
                                [kind |-> "refreshed",
                                 value |-> Cardinality(DOMAIN team_cache)]]]
            /\ UNCHANGED <<team_cache_lock, listCalls>>
    /\ UNCHANGED <<team_cache, last_update_time, now, relayVars>>

\* POST /refresh-teams up to its first suspension
refresh_teams_cache_endpoint(c) ==
    /\ Started
    /\ callers[c].pc = "idle"
    /\ nRequests < MaxRequests
    /\ nRequests' = nRequests + 1
    /\ Acquire(c, "refresh_teams", Null)
    /\ UNCHANGED <<team_cache, last_update_time, now, relayVars>>

\* what the coroutine that ran update_team_cache answers its own caller with
Answer(caller, cache, raised) ==
    CASE caller.op = "lifespan" -> NoAnswer
      [] raised -> [kind |-> "error", value |-> Null]
      [] caller.op = "get_team_id" ->
            [kind |-> "id", value |-> CacheGet(cache, caller.name)]
      [] OTHER -> [kind |-> "refreshed", value |-> Cardinality(DOMAIN cache)]

\* leaving "async with team_cache_lock": the first waiter gets the lock and
\* sends its own GET /teams
Release(c, resp) ==
    LET waiters == team_cache_lock.waiters
        done    == [callers EXCEPT ![c] = [IdleCaller EXCEPT !.resp = resp]]
    IN  IF waiters = <<>>
        THEN /\ team_cache_lock' = [holder |-> 0, waiters |-> <<>>]
             /\ callers' = done
             /\ listCalls' = listCalls
        ELSE /\ team_cache_lock' = [holder |-> Head(waiters), waiters |-> Tail(waiters)]
             /\ callers' = [done EXCEPT ![Head(waiters)].pc = "fetching"]
             /\ listCalls' = listCalls + 1

\* update_team_cache from the answer of GET /teams to the end of the request
update_team_cache(c, outcome) ==
    /\ callers[c].pc = "fetching"
    /\ team_cache_lock.holder = c
    /\ LET got   == get_teams(outcome)
           teams == got.teams
       IN  IF got.raised
           THEN /\ UNCHANGED <<team_cache, last_update_time>>
                /\ Release(c, Answer(callers[c], team_cache, TRUE))
           ELSE /\ team_cache' = NewCache(teams)
                /\ last_update_time' = now
                /\ Release(c, Answer(callers[c], NewCache(teams), FALSE))
    /\ UNCHANGED <<now, nRequests, relayVars>>

\* time passes
Tick ==
    /\ now < StartClock + MaxTicks * TickHours
    /\ now' = now + TickHours
    /\ UNCHANGED <<team_cache, last_update_time, team_cache_lock, callers,
                   listCalls, nRequests, relayVars>>

\* the module as imported: an empty cache that was never updated
TeamsAtImport ==
    /\ team_cache = <<>>
    /\ last_update_time = 0
    /\ team_cache_lock = [holder |-> 0, waiters |-> <<>>]
    /\ callers = [c \in {Lifespan} \cup Callers |->
                    IF c = Lifespan THEN [IdleCaller EXCEPT !.pc = "init"] ELSE IdleCaller]
    /\ now = StartClock
    /\ listCalls = 0
    /\ nRequests = 0

NextTeams ==
    \/ \E runs \in BOOLEAN : lifespan(runs)
    \/ \E c \in Callers, team_name \in TeamNames : get_team_id(c, team_name)
    \/ \E c \in Callers : refresh_teams_cache_endpoint(c)
    \/ \E c \in {Lifespan} \cup Callers, outcome \in TeamOutcomes :
          update_team_cache(c, outcome)
    \/ Tick

\* ------------------------------------------------- one relay job on its own
\* Dialogue tables the relay job can find: none, or the conversation's row
\* before and after an assistant conversation was recorded
RelayTables ==
    {{}} \cup {{Dialogue(1, "1", d, "open", Null)} : d \in {Null, "A1"}}

\* tasks.process_message_with_dify.apply_async(args=[...], link=..., link_error=...)
apply_async(msg, dify, cw, st, conv) ==
    /\ jobs = <<>>
    /\ jobs' = Append(jobs, NewJob(msg, dify, cw, st, conv))
    /\ UNCHANGED <<rows, nextId, handlers, scheduled, nEvents, deletions, teamVars>>

Init ==
    /\ rows \in RelayTables
    /\ nextId = 2
    /\ handlers = [h \in Handlers |-> IdleHandler]
    /\ jobs = <<>>
    /\ scheduled = <<>>
    /\ nEvents = 0
    /\ deletions = <<>>
    /\ TeamsAtImport

Next ==
    \/ \E msg \in Contents, dify \in {Null, "A1"}, st \in Statuses :
          apply_async(msg, dify, "1", st, "1")
    \/ \E j \in JobIds, http \in HttpOutcomes, toggleOk, noteOk, sendOk \in BOOLEAN :
          process_message_with_dify(j, http, toggleOk, noteOk, sendOk)
    \/ \E j \in JobIds : update_dialogue_dify_id_read(j)
    \/ \E j \in JobIds : update_dialogue_dify_id_commit(j)
    \/ \E j \in JobIds, sendOk \in BOOLEAN : handle_dify_response(j, sendOk)
    \/ \E j \in JobIds : handle_dify_error(j)

Spec == Init /\ [][Next]_vars

\* ------------------------------------------------ properties of one relay job
\* the job's last chat-send call ended in DifyConversationNotFoundError; a job
\* started with an id ends on any other outcome, so every call before it did too
AllNotFound(job) == Truthy(job.dify) /\ job.lastHttp = "404"

\* the job's last chat-send call ended in a plain DifyApiError
ApiError(job) ==
    \/ job.lastHttp \in {"500", "transport"}
    \/ job.lastHttp = "404" /\ ~Truthy(job.dify)

\* C1 as amended: a job started with a prior assistant conversation id whose
\* every chat-send call raises conversation-not-found is re-scheduled after each
\* of its first max_retries calls, makes exactly max_retries + 1 = 4 calls in
\* total and then ends failed with that error; no further attempt is scheduled.
C1_RetryBound ==
    \A j \in JobIds :
        AllNotFound(jobs[j]) =>
            IF jobs[j].calls <= max_retries
            THEN jobs[j].pc = "queued" /\ jobs[j].retries = jobs[j].calls
            ELSE /\ jobs[j].calls = max_retries + 1
                 /\ jobs[j].pc = "FAILURE"
                 /\ jobs[j].exc = "DifyConversationNotFoundError"

\* C1 as stated: exactly max_attempts = 3 calls in total, then terminal failure.
C1_AsStated ==
    \A j \in JobIds :
        AllNotFound(jobs[j]) =>
            IF jobs[j].calls < max_retries
            THEN jobs[j].pc = "queued"
            ELSE jobs[j].calls = max_retries /\ jobs[j].pc = "FAILURE"

C1_Witness ==
    \E j \in JobIds :
        /\ AllNotFound(jobs[j])
        /\ jobs[j].pc = "FAILURE"
        /\ jobs[j].calls = max_retries + 1

\* C2: a job with a known helpdesk conversation id that exhausted its retries on
\* conversation-not-found has set the helpdesk status to open and posted exactly
\* one public apology (the helpdesk accepting every call).
C2_ExhaustionCleanup ==
    \A j \in JobIds :
        ( /\ AllNotFound(jobs[j])
          /\ jobs[j].pc = "FAILURE"
          /\ Truthy(jobs[j].cw)
          /\ ~jobs[j].refused )
        => jobs[j].opens >= 1 /\ jobs[j].apologies = 1

\* C3: after a chat-send call that failed with a generic API error (non-2xx,
\* transport error, or 404 without a prior id) a job with a known helpdesk
\* conversation id has ended failed, with the status set to open and the
\* apology posted (the helpdesk accepting every call).
C3_ApiErrorIsTerminalFailure ==
    \A j \in JobIds :
        (ApiError(jobs[j]) /\ Truthy(jobs[j].cw) /\ ~jobs[j].refused)
        => /\ jobs[j].pc = "FAILURE"
           /\ jobs[j].opens >= 1
           /\ jobs[j].apologies >= 1

\* C4: a job started without a prior id whose first chat-send call gets HTTP 404
\* made that one call, is not retried and has ended in terminal failure.
C4_NoRetryOnCreation404 ==
    \A j \in JobIds :
        (~Truthy(jobs[j].dify) /\ jobs[j].calls = 1 /\ jobs[j].lastHttp = "404")
        => jobs[j].retries = 0 /\ jobs[j].pc = "FAILURE"

\* C5: over all attempts of one job (with a message text, the helpdesk accepting
\* every call) the conversation gets the answer or one apology, never both and
\* never two apologies, and a failed job has set the conversation to open.
C5_AnswerOrOneApology ==
    \A j \in JobIds :
        (jobs[j].msg # <<Null>> /\ ~jobs[j].refused) =>
            /\ jobs[j].apologies <= 1
            /\ ~(jobs[j].relayed >= 1 /\ jobs[j].apologies >= 1)
            /\ (jobs[j].pc = "FAILURE" /\ Truthy(jobs[j].cw)) => jobs[j].opens >= 1

\* C6: a Dialogue row whose assistant conversation id is set is left as it is
\* by every step of a later pipeline run, whatever id the gateway returned.
C6_WriteOnce == [][\A r \in rows : Truthy(r.dify) => r \in rows']_vars

C6_Witness ==
    \E j \in JobIds :
        /\ jobs[j].pc = "SUCCESS"
        /\ jobs[j].newId = "A2"
        /\ \E r \in rows : r.cw = jobs[j].cw /\ r.dify = "A1"

\* a job started without an assistant id whose every chat-send call so far was
\* answered without a conversation id (any other answer ends the job)
AllMissing(job) ==
    /\ ~Truthy(job.dify) /\ Truthy(job.cw)
    /\ job.calls >= 1
    /\ job.lastHttp = "ok"
    /\ job.newId = Null
    /\ job.pc \in {"queued", "FAILURE"}

\* C16: a job without a prior assistant id whose calls succeed but return no
\* conversation id is retried, at most the retry cap's number of times; while
\* it is waiting to be retried the conversation has not been set to open and no
\* apology has been posted; when the retries are used up it ends in terminal
\* failure with the status set to open and the apology posted; no answer of any
\* attempt is relayed (the helpdesk accepting every call).
C16_MissingIdRetried ==
    \A j \in JobIds :
        (AllMissing(jobs[j]) /\ ~jobs[j].refused) =>
            /\ jobs[j].relayed = 0
            /\ jobs[j].calls <= max_retries + 1
            /\ jobs[j].pc = "queued" =>
                  /\ jobs[j].calls <= max_retries
                  /\ jobs[j].opens = 0 /\ jobs[j].apologies = 0
            /\ jobs[j].pc = "FAILURE" =>
                  /\ jobs[j].opens >= 1 /\ jobs[j].apologies = 1

\* a job whose message text starts with one of the two sentinel prefixes
SentinelJob(job) ==
    /\ job.msg # <<Null>>
    /\ \/ StartsWith(job.msg, BOT_CONVERSATION_OPENED_MESSAGE_EXTERNAL)
       \/ StartsWith(job.msg, BOT_ERROR_MESSAGE_INTERNAL)

\* C11: whatever enqueued it, a relay job whose message text starts with a
\* sentinel prefix only ever goes from queued to succeeded with the "skipped"
\* result: it makes no chat-send call, is never retried, posts nothing to the
\* helpdesk (no status change, note, apology or relayed answer, its success
\* continuation included) and leaves the Dialogue table as it is.
C11_JobLevelGuard ==
    [][\A j \in JobIds :
          SentinelJob(jobs[j]) =>
            /\ jobs'[j].pc \in {"queued", "SUCCESS"}
            /\ jobs'[j].pc = "SUCCESS" => jobs'[j].result = SkippedResult
            /\ jobs'[j].calls = 0 /\ jobs'[j].retries = 0
            /\ jobs'[j].opens = 0 /\ jobs'[j].notes = 0
            /\ jobs'[j].apologies = 0 /\ jobs'[j].relayed = 0
            /\ rows' = rows /\ nextId' = nextId]_vars

\* a sentinel job ran and its success continuation ran after it
C11_Witness ==
    \E j \in JobIds :
        /\ jobs[j].msg = BOT_ERROR_MESSAGE_INTERNAL
        /\ jobs[j].pc = "SUCCESS"
        /\ jobs[j].result = SkippedResult
        /\ jobs[j].link # "none"

\* C18: a job is re-scheduled only by an execution whose chat-send call (a) got
\* conversation-not-found for a supplied prior id or (b) succeeded without a
\* new id on creation; an execution whose call failed in any other way (non-2xx
\* status, 404 on creation, transport error, any other exception) made that
\* one call, schedules no retry and ends the job.
C18_NarrowRetries ==
    [][\A j \in JobIds :
          LET job     == jobs[j]
              after   == jobs'[j]
              retried == after.retries > job.retries
              k       == after.lastHttp
          IN  /\ retried =>
                    /\ after.calls = job.calls + 1
                    /\ after.retries = job.retries + 1
                    /\ \/ k = "404" /\ Truthy(job.dify)
                       \/ /\ k = "ok" /\ after.newId = Null
                          /\ ~Truthy(job.dify) /\ Truthy(job.cw)
              /\ ( /\ after.calls = job.calls + 1
                   /\ \/ k \in {"500", "transport", "crash"}
                      \/ k = "404" /\ ~Truthy(job.dify) )
                 => ~retried /\ after.pc \in {"SUCCESS", "FAILURE"}
              /\ after.calls \in {job.calls, job.calls + 1}]_vars

\* a job retried once for not-found whose second call got an API error: the
\* job ended there, after two calls and one retry
C18_Witness ==
    \E j \in JobIds :
        /\ Truthy(jobs[j].dify)
        /\ jobs[j].calls = 2 /\ jobs[j].retries = 1
        /\ jobs[j].lastHttp = "500"
        /\ jobs[j].pc # "queued"

\* C19: once the success continuation of a job that returned the gateway's
\* payload has run (the helpdesk accepting the call), the conversation has got
\* one public message: the payload's answer when it has one, the fixed
\* apologetic default text when it has none.
C19_ContinuationFallback ==
    \A j \in JobIds :
        ( /\ jobs[j].pc = "SUCCESS"
          /\ jobs[j].result.kind = "reply"
          /\ jobs[j].link # "none"
          /\ jobs[j].conv # Null
          /\ ~jobs[j].refused )
        => /\ jobs[j].relayed = 1
           /\ jobs[j].posted = IF jobs[j].result.answer # Null
                               THEN jobs[j].result.answer
                               ELSE error_response

\* C20: when the helpdesk refuses the reply that the success continuation
\* posts, the continuation ends as failed; the relay job stays succeeded with
\* its result, nothing counts as relayed and the Dialogue table is unchanged.
C20_DeliveryFailureNotSwallowed ==
    [][\A j \in JobIds :
          (ValidDifyResponse(jobs[j].result) /\ handle_dify_response(j, FALSE)) =>
              /\ jobs'[j].link = "failed"
              /\ jobs'[j].pc = "SUCCESS"
              /\ jobs'[j].result = jobs[j].result
              /\ jobs'[j].relayed = jobs[j].relayed
              /\ rows' = rows /\ nextId' = nextId]_vars

\* a job with an answer succeeded and the delivery of its answer failed
C20_Witness ==
    \E j \in JobIds :
        /\ jobs[j].pc = "SUCCESS"
        /\ jobs[j].result.answer = "Hi"
        /\ jobs[j].link = "failed"
        /\ jobs[j].relayed = 0

\* C21: the error continuation of a failed job only logs: across it the counts
\* of status changes, private notes, apologies and relayed answers of the job
\* stay as the pipeline left them, the job's state is kept and the Dialogue
\* table is unchanged.
C21_ErrorContinuationLogsOnly ==
    [][\A j \in JobIds :
          (jobs[j].pc = "FAILURE" /\ jobs[j].link = "none" /\ jobs'[j].link # "none") =>
              /\ jobs'[j] = [jobs[j] EXCEPT !.link = "logged"]
              /\ jobs'[j].opens = jobs[j].opens
              /\ jobs'[j].notes = jobs[j].notes
              /\ jobs'[j].apologies = jobs[j].apologies
              /\ jobs'[j].relayed = jobs[j].relayed
              /\ rows' = rows /\ nextId' = nextId]_vars

\* a job that failed and apologised once, its error continuation done
C21_Witness ==
    \E j \in JobIds :
        /\ jobs[j].pc = "FAILURE"
        /\ jobs[j].link = "logged"
        /\ jobs[j].apologies = 1 /\ jobs[j].opens = 1

\* C23: how an execution of the task ends (its state, the error it failed
\* with, whether it is re-scheduled, its result) does not depend on whether the
\* helpdesk accepted the status change, the private note or the apology: it is
\* what it would have been had every cleanup call succeeded.
C23_CleanupDoesNotMask ==
    [][\A j \in JobIds, http \in HttpOutcomes, toggleOk, noteOk, sendOk \in BOOLEAN :
          process_message_with_dify(j, http, toggleOk, noteOk, sendOk) =>
              LET clean == Attempt(jobs[j], http, TRUE, TRUE, TRUE)
              IN  /\ jobs'[j].pc = clean.pc
                  /\ jobs'[j].exc = clean.exc
                  /\ jobs'[j].retries = clean.retries
                  /\ jobs'[j].result = clean.result]_vars

\* a job failed on an unexpected gateway error while the helpdesk refused the
\* cleanup, and it carries the gateway's error
C23_Witness ==
    \E j \in JobIds :
        /\ jobs[j].pc = "FAILURE"
        /\ jobs[j].lastHttp = "crash"
        /\ jobs[j].refused
        /\ jobs[j].apologies = 0
        /\ jobs[j].exc = "Exception"

\* C24: an execution that ends the job through the terminal failure path, for a
\* known helpdesk conversation id, attempts both cleanup calls: the status is
\* set to open whenever the helpdesk accepts that call, and the apology is
\* posted whenever the helpdesk accepts that call, each whatever becomes of the
\* other.
C24_BothCleanupsAttempted ==
    [][\A j \in JobIds, http \in HttpOutcomes, toggleOk, noteOk, sendOk \in BOOLEAN :
          ( /\ process_message_with_dify(j, http, toggleOk, noteOk, sendOk)
            /\ jobs'[j].pc = "FAILURE"
            /\ jobs'[j].exc \in {"Exception", "RuntimeError"}
            /\ Truthy(jobs[j].cw) )
          => /\ toggleOk => jobs'[j].opens = jobs[j].opens + 1
             /\ sendOk => jobs'[j].apologies = jobs[j].apologies + 1]_vars

\* the workers keep running: a task that is queued is eventually executed, and
\* one that reached the store update eventually finishes it
SpecLive ==
    /\ Spec
    /\ WF_vars(\E j \in JobIds, http \in HttpOutcomes,
                  toggleOk, noteOk, sendOk \in BOOLEAN :
                  process_message_with_dify(j, http, toggleOk, noteOk, sendOk))
    /\ WF_vars(\E j \in JobIds : update_dialogue_dify_id_read(j))
    /\ WF_vars(\E j \in JobIds : update_dialogue_dify_id_commit(j))

\* the job has ended: succeeded (skipped included) or failed
Terminated == jobs # <<>> /\ jobs[1].pc \in {"SUCCESS", "FAILURE"}

\* C17: whatever the gateway answers, a job makes at most max_retries + 1
\* chat-send calls, is no longer queued once it made that many, stays ended once
\* it has ended, and every enqueued job does end.
C17_JobTerminates ==
    /\ [](\A j \in JobIds :
            /\ jobs[j].retries <= max_retries
            /\ jobs[j].calls <= jobs[j].retries + 1
            /\ jobs[j].calls = max_retries + 1 => jobs[j].pc # "queued")
    /\ [][\A j \in JobIds :
            jobs[j].pc \in {"SUCCESS", "FAILURE"} =>
                jobs'[j].pc = jobs[j].pc /\ jobs'[j].calls = jobs[j].calls]_vars
    /\ (jobs # <<>>) ~> Terminated

\* a job that used every retry on answers without an id and then failed
C17_Witness ==
    /\ Terminated
    /\ jobs[1].pc = "FAILURE"
    /\ jobs[1].exc = "RuntimeError"
    /\ jobs[1].retries = max_retries
    /\ jobs[1].calls = max_retries + 1

\* ------------------------------------------- webhook ingestion, workers idle
\* the state after start-up: an empty Dialogue table, nothing in flight
InitEmpty ==
    /\ rows = {}
    /\ nextId = 1
    /\ handlers = [h \in Handlers |-> IdleHandler]
    /\ jobs = <<>>
    /\ scheduled = <<>>
    /\ nEvents = 0
    /\ deletions = <<>>
    /\ TeamsAtImport

\* requests are handled concurrently: their queries and commits interleave
NextIngest ==
    \/ \E h \in Handlers, w \in Envelopes, sendOk \in BOOLEAN :
          chatwoot_webhook(h, w, sendOk)
    \/ \E h \in Handlers, brokerOk, sendOk \in BOOLEAN :
          MessageCreatedCommit(h, brokerOk, sendOk)
    \/ \E h \in Handlers : ConversationUpsertCommit(h)
    \/ \E h \in Handlers : ConversationDeletedCommit(h)

SpecIngest == InitEmpty /\ [][NextIngest]_vars

\* requests arrive one after the other: a request is taken up only when no
\* other request is in flight
NoneInFlight == \A h \in Handlers : handlers[h].pc = "idle"

NextSeq ==
    \/ \E h \in Handlers, w \in Envelopes, sendOk \in BOOLEAN :
          NoneInFlight /\ chatwoot_webhook(h, w, sendOk)
    \/ \E h \in Handlers, brokerOk, sendOk \in BOOLEAN :
          MessageCreatedCommit(h, brokerOk, sendOk)
    \/ \E h \in Handlers : ConversationUpsertCommit(h)
    \/ \E h \in Handlers : ConversationDeletedCommit(h)

SpecSeq == InitEmpty /\ [][NextSeq]_vars

\* --------------------------------------------------- properties of ingestion
\* handler h commits the upsert of a conversation_created / _updated request
UpsertCommitted(h) ==
    /\ handlers[h].pc = "selected"
    /\ handlers[h].req.event \in {"conversation_created", "conversation_updated"}
    /\ handlers'[h].pc = "idle"

\* C8: with requests handled one after the other, a conversation_created or
\* conversation_updated request leaves exactly one Dialogue row for its helpdesk
\* conversation id, carrying the request's status and assignee; when a row was
\* there already (the same event a second time) it is that row, updated in
\* place, with its assistant conversation id kept: no row is added.
C8_UpsertIdempotent ==
    [][\A h \in Handlers :
          UpsertCommitted(h) =>
            LET data == to_dialogue_create(handlers[h].req)
                old  == Matching(data.cw)
                new  == {r \in rows' : r.cw = data.cw}
            IN  /\ Cardinality(new) = 1
                /\ \A r \in new : r.status = data.status /\ r.assignee = data.assignee
                /\ old # {} => /\ {r.id : r \in rows'} = {r.id : r \in rows}
                               /\ {r.dify : r \in new} = {r.dify : r \in old}
                               /\ nextId' = nextId]_vars

\* two upserts in sequence answered with the same dialogue id, one row stored
C8_Witness ==
    /\ nEvents = 2
    /\ \A h \in {1, 2} : handlers[h].resp = Response("success", "dialogue_id", 1)
    /\ Cardinality(rows) = 1
    /\ jobs = <<>>

\* C9: the Dialogue table holds at most one row per helpdesk conversation id,
\* also while several requests for the same id are handled concurrently.
C9_OneDialoguePerConversation ==
    \A r1, r2 \in rows : r1.cw = r2.cw => r1 = r2

\* the envelopes C10 speaks of: sender type agent_bot, or a content that starts
\* with one of the two sentinel prefixes
SelfGenerated(w) ==
    /\ w.event = "message_created"
    /\ \/ w.sender_type = "agent_bot"
       \/ StartsWith(w.content, BOT_CONVERSATION_OPENED_MESSAGE_EXTERNAL)
       \/ StartsWith(w.content, BOT_ERROR_MESSAGE_INTERNAL)

\* C10: a self-generated message_created request is answered "skipped" at once;
\* no relay job is enqueued and the Dialogue table is left as it is.
C10_SelfGeneratedSkipped ==
    [][\A h \in Handlers, w \in Envelopes, sendOk \in BOOLEAN :
          (nEvents' # nEvents /\ SelfGenerated(w) /\ chatwoot_webhook(h, w, sendOk)) =>
              /\ handlers'[h].pc = "idle"
              /\ handlers'[h].resp.status = "skipped"
              /\ jobs' = jobs
              /\ rows' = rows
              /\ nextId' = nextId]_vars

\* both kinds of self-generated message were answered, nothing stored or queued
C10_Witness ==
    /\ handlers[1].resp = Response("skipped", "agent_bot message", 0)
    /\ handlers[2].resp = Response("skipped", "agent_bot status/error message", 0)
    /\ rows = {}
    /\ jobs = <<>>

\* C22: when the broker refuses the relay job of a message_created request,
\* no job is left enqueued, the handler makes one direct public notification
\* attempt to the conversation, and the request is answered with an error only
\* when that notification failed too.
C22_EnqueueFailure ==
    [][\A h \in Handlers, sendOk \in BOOLEAN :
          MessageCreatedCommit(h, FALSE, sendOk) =>
              /\ jobs' = jobs
              /\ handlers'[h].notified =
                    handlers[h].notified + (IF sendOk THEN 1 ELSE 0)
              /\ handlers'[h].resp.status = "500" <=> ~sendOk]_vars

\* the conversation_created and conversation_updated envelopes
UpsertEnvelopes ==
    {w \in ConversationEnvelopes :
        w.event \in {"conversation_created", "conversation_updated"}}

\* C25: handling a conversation_created or conversation_updated request, from
\* its arrival to its answer, enqueues no relay job, schedules no assistant
\* call and posts nothing to the helpdesk; its commit leaves the conversation's
\* Dialogue with the status and assignee of the event.
C25_UpsertOnly ==
    [][\A h \in Handlers :
          /\ \A w \in UpsertEnvelopes, sendOk \in BOOLEAN :
                chatwoot_webhook(h, w, sendOk) =>
                    /\ jobs' = jobs /\ scheduled' = scheduled
                    /\ rows' = rows
                    /\ handlers'[h].notified = handlers[h].notified
          /\ UpsertCommitted(h) =>
                LET data == to_dialogue_create(handlers[h].req)
                IN  /\ jobs' = jobs /\ scheduled' = scheduled
                    /\ handlers'[h].notified = handlers[h].notified
                    /\ handlers'[h].resp.status = "success"
                    /\ \E r \in rows' :
                          /\ r.cw = data.cw
                          /\ r.status = data.status
                          /\ r.assignee = data.assignee]_vars

\* a conversation event for a pending, assigned conversation was stored and
\* nothing was handed to the relay
C25_Witness ==
    /\ \E h \in Handlers : handlers[h].resp = Response("success", "dialogue_id", 1)
    /\ \E r \in rows : r.cw = "1" /\ r.status = "pending" /\ r.assignee = "7"
    /\ jobs = <<>>
    /\ nEvents = 1

\* C26: a conversation_deleted request for a conversation id that has no
\* Dialogue changes nothing, from its arrival to its answer: the table is as it
\* was, no assistant-side deletion is scheduled, no job is enqueued, and the
\* request is answered normally ("skipped"), not with an error.
C26_DeleteAbsentIsNoOp ==
    [][\A h \in Handlers :
          /\ \A w \in ConversationEnvelopes, sendOk \in BOOLEAN :
                ( /\ w.event = "conversation_deleted"
                  /\ w.conversation.present
                  /\ Matching(Str(w.conversation.id)) = {}
                  /\ chatwoot_webhook(h, w, sendOk) )
                => /\ rows' = rows /\ scheduled' = scheduled /\ jobs' = jobs
                   /\ handlers'[h].pc = "selected"
                   /\ handlers'[h].found = NoRow
          /\ ( /\ handlers[h].pc = "selected"
               /\ handlers[h].req.event = "conversation_deleted"
               /\ handlers[h].found = NoRow
               /\ handlers'[h].pc = "idle" )
             => /\ rows' = rows /\ scheduled' = scheduled /\ jobs' = jobs
                /\ nextId' = nextId
                /\ handlers'[h].resp = Response("skipped", "dialogue not found", 0)]_vars

\* a deletion for an unknown conversation was answered, nothing stored or
\* scheduled
C26_Witness ==
    /\ \E h \in Handlers :
          handlers[h].resp = Response("skipped", "dialogue not found", 0)
    /\ rows = {}
    /\ scheduled = <<>>

\* the event kinds the handler has a branch for
HandledEvents ==
    {"message_created", "conversation_created", "conversation_updated",
     "conversation_deleted"}

\* C27: a request whose event is of any other kind is answered at once with
\* success and the event's name; the Dialogue table is unchanged, no relay job
\* is enqueued, no assistant-side deletion is scheduled and nothing is posted.
C27_OtherEventsAccepted ==
    [][\A h \in Handlers, w \in Envelopes, sendOk \in BOOLEAN :
          (w.event \notin HandledEvents /\ chatwoot_webhook(h, w, sendOk)) =>
              /\ handlers'[h].pc = "idle"
              /\ handlers'[h].resp = Response("success", w.event, 0)
              /\ handlers'[h].notified = handlers[h].notified
              /\ rows' = rows /\ nextId' = nextId
              /\ jobs' = jobs /\ scheduled' = scheduled]_vars

\* a status-change event was accepted on an empty table
C27_Witness ==
    /\ \E h \in Handlers :
          handlers[h].resp = Response("success", "conversation_status_changed", 0)
    /\ rows = {}
    /\ jobs = <<>>

\* ------------------------------- messages relayed end to end, all services up
\* a customer message for conversation 1, carried in the nested message only
FlowEnvelopes ==
    {w \in MessageEnvelopes :
        /\ w.sender_type = "user"
        /\ w.content = <<"H", "i">>
        /\ w.message.status = "open"
        /\ w.conversation = NoConv}

\* the assistant answers every call, opening a conversation of its own choice
FlowOutcomes == {o \in HttpOutcomes : o.kind = "ok" /\ o.cid # Null /\ o.answer # Null}

\* requests arrive one after the other; the workers run the jobs concurrently
NextFlow ==
    \/ \E h \in Handlers, w \in FlowEnvelopes :
          NoneInFlight /\ chatwoot_webhook(h, w, TRUE)
    \/ \E h \in Handlers : MessageCreatedCommit(h, TRUE, TRUE)
    \/ \E j \in JobIds, http \in FlowOutcomes :
          process_message_with_dify(j, http, TRUE, TRUE, TRUE)
    \/ \E j \in JobIds : update_dialogue_dify_id_read(j)
    \/ \E j \in JobIds : update_dialogue_dify_id_commit(j)
    \/ \E j \in JobIds : handle_dify_response(j, TRUE)

SpecFlow == InitEmpty /\ [][NextFlow]_vars

\* C7: under any interleaving of relay jobs for one helpdesk conversation, a
\* row's assistant conversation id, once set, is never changed by a later write.
C7_SetAtMostOnce ==
    [][\A r \in rows : Truthy(r.dify) =>
          \A r2 \in rows' : r2.id = r.id => r2.dify = r.dify]_vars

\* ---------------------------------------------- raw payloads and validation
\* the JSON bodies sent to the endpoint: a customer message with or without
\* its conversation, with the envelope's required fields event and
\* message_type present, missing (Null) or, for message_type, not one of the
\* two literals
Payloads ==
    { [event |-> e, message_type |-> t, sender_type |-> "user",
       content |-> <<"H", "i">>, message |-> NoConv, conversation |-> cv] :
         e \in {Null, "message_created"},
         t \in {Null, "incoming", "template"},
         cv \in {NoConv} \cup {c \in Convs : c.status = "open"} }

\* ChatwootWebhook.model_validate(payload) raises pydantic's ValidationError
ValidationFails(payload) ==
    \/ payload.event = Null
    \/ payload.message_type \notin {"incoming", "outgoing"}

\* the ChatwootWebhook that model_validate returns
Validated(payload) ==
    [event |-> payload.event, sender_type |-> payload.sender_type,
     content |-> payload.content, message |-> payload.message,
     conversation |-> payload.conversation]

\* the endpoint from the request on: an error raised by model_validate is
\* handled by nobody and the framework answers 500 Internal Server Error
chatwoot_webhook_request(h, payload, sendOk) ==
    IF ValidationFails(payload)
    THEN /\ handlers[h].pc = "idle"
         /\ nEvents < MaxEvents
         /\ nEvents' = nEvents + 1
         /\ handlers' = [handlers EXCEPT ![h] =
                           Returned(h, "500", "Internal Server Error")]
         /\ UNCHANGED <<rows, nextId, jobs, scheduled, deletions, teamVars>>
    ELSE chatwoot_webhook(h, Validated(payload), sendOk)

NextRaw ==
    \/ \E h \in Handlers, payload \in Payloads, sendOk \in BOOLEAN :
          NoneInFlight /\ chatwoot_webhook_request(h, payload, sendOk)
    \/ \E h \in Handlers, brokerOk, sendOk \in BOOLEAN :
          MessageCreatedCommit(h, brokerOk, sendOk)
    \/ \E j \in JobIds, http \in FlowOutcomes :
          process_message_with_dify(j, http, TRUE, TRUE, TRUE)
    \/ \E j \in JobIds : update_dialogue_dify_id_read(j)
    \/ \E j \in JobIds : update_dialogue_dify_id_commit(j)

SpecRaw == InitEmpty /\ [][NextRaw]_vars

\* the payloads C28 calls malformed: those that fail the envelope's validation
\* and a message_created that carries no conversation identifier at all
Malformed(payload) ==
    \/ ValidationFails(payload)
    \/ /\ payload.event = "message_created"
       /\ ~payload.message.present /\ ~payload.conversation.present

\* C28: a malformed payload is answered with a 4xx-class response at once; no
\* Dialogue is created or changed and no relay job is enqueued, then or later.
C28_MalformedRejected ==
    [][\A h \in Handlers, payload \in Payloads, sendOk \in BOOLEAN :
          (Malformed(payload) /\ chatwoot_webhook_request(h, payload, sendOk)) =>
              /\ handlers'[h].pc = "idle"
              /\ handlers'[h].resp.status = "4xx"
              /\ rows' = rows /\ nextId' = nextId
              /\ jobs' = jobs]_vars

\* ------------------------------------------------------ the team cache alone
InitTeams ==
    /\ rows = {}
    /\ nextId = 1
    /\ handlers = [h \in Handlers |-> IdleHandler]
    /\ jobs = <<>>
    /\ scheduled = <<>>
    /\ nEvents = 0
    /\ deletions = <<>>
    /\ TeamsAtImport

SpecTeams == InitTeams /\ [][NextTeams]_vars

\* ------------------------------------------------ properties of the team cache
\* C12: of the resolvers that find the cache empty or older than 24 hours while
\* a refresh is in flight, none sends a GET /teams of its own once the refresh
\* it waited for has left the cache fresh: one refresh serves them all.
C12_SingleRefresh ==
    [][\A c \in Callers :
          ( /\ callers[c].op = "get_team_id"
            /\ callers[c].pc = "waiting"
            /\ callers'[c].pc = "fetching" )
          => \/ DOMAIN team_cache' = {}
             \/ now' - last_update_time' > CacheHours]_vars

\* C13: when the helpdesk's team-list operation fails (a non-2xx status, a
\* transport error, an unusable body), the refresh leaves team_cache and
\* last_update_time as they were and the request that triggered it is answered
\* with the error.
C13_RefreshFailureKeepsCache ==
    [][\A c \in {Lifespan} \cup Callers, outcome \in TeamOutcomes :
          (outcome.kind # "ok" /\ update_team_cache(c, outcome)) =>
              /\ team_cache' = team_cache
              /\ last_update_time' = last_update_time
              /\ c # Lifespan => callers'[c].resp.kind = "error"]_vars

\* ------------------------------------ requests in sequence on a stored table
\* the table holds what earlier relays left behind; requests arrive one by one
NextStored ==
    \/ NextSeq
    \/ \E http \in DeleteOutcomes : delete_dify_conversation(http)

SpecStored == Init /\ [][NextStored]_vars

\* handler h commits the deletion of the row it found
DeletionCommitted(h) ==
    /\ handlers[h].pc = "selected"
    /\ handlers[h].req.event = "conversation_deleted"
    /\ handlers[h].found # NoRow
    /\ handlers'[h].pc = "idle"

\* C14: handling conversation_deleted for a stored Dialogue removes its row;
\* when the row carries an assistant conversation id exactly one downstream
\* deletion, for that id, is scheduled, and otherwise none is.
C14_DeletionCascade ==
    [][\A h \in Handlers :
          DeletionCommitted(h) =>
            LET d == handlers[h].found
            IN  /\ d \in rows
                /\ rows' = rows \ {d}
                /\ scheduled' = IF d.dify \in DifyIds
                                THEN scheduled \o <<d.dify>>
                                ELSE scheduled]_vars

\* the row that carried A1 is gone and one deletion of A1 is scheduled
C14_Witness ==
    /\ scheduled = <<"A1">>
    /\ rows = {}
    /\ \E h \in Handlers :
          handlers[h].resp = Response("success", "scheduled for deletion", 0)

C29_DownstreamDeletionBestEffort ==
    [][\A http \in DeleteOutcomes :
          delete_dify_conversation(http) =>
              LET run == deletions'[Len(deletions')]
              IN  /\ rows' = rows
                  /\ handlers' = handlers
                  /\ \A r \in rows' : r.dify # run.id
                  /\ http = "ok" => ~run.raised /\ run.status = "success"
                  /\ http = "404" => ~run.raised /\ run.status = "not_found"
                  /\ http \in {"500", "transport"} => run.raised]_vars

\* the deletion of A1 found the conversation absent at the assistant, after the
\* request was answered with success
C29_Witness ==
    /\ deletions = <<[id |-> "A1", raised |-> FALSE, status |-> "not_found"]>>
    /\ rows = {}
    /\ \E h \in Handlers :
          handlers[h].resp = Response("success", "scheduled for deletion", 0)

\* the coroutines inside the body of update_team_cache: GET /teams sent, the
\* new cache and timestamp not yet published
Refreshing == {c \in {Lifespan} \cup Callers : callers[c].pc = "fetching"}

\* C30: at most one coroutine is inside the refresh body at any time, and it is
\* the holder of team_cache_lock, whether the start-up, a resolver or the
\* manual refresh endpoint started it; everyone else who wants to refresh is
\* queued on the lock.
C30_OneRefreshInFlight ==
    /\ Cardinality(Refreshing) <= 1
    /\ \A c \in Refreshing : team_cache_lock.holder = c
    /\ Refreshing = {} => team_cache_lock = [holder |-> 0, waiters |-> <<>>]
    /\ \A c \in {Lifespan} \cup Callers :
          callers[c].pc = "waiting" <=>
              \E i \in 1..Len(team_cache_lock.waiters) : team_cache_lock.waiters[i] = c

\* a resolver refreshes while the manual refresh endpoint waits for the lock
C30_Witness ==
    \E c, d \in Callers :
        /\ callers[c].pc = "fetching" /\ callers[c].op = "get_team_id"
        /\ callers[d].pc = "waiting" /\ callers[d].op = "refresh_teams"

\* C31: a request to the manual refresh endpoint is never answered from the
\* cache, however fresh: it enters update_team_cache, every entry into the
\* refresh body sends exactly one GET /teams, and when the helpdesk answers
\* with a team list the cache becomes exactly that list's name-to-id map, the
\* last-refresh time becomes the current time and the request is answered with
\* the size of the new cache.
C31_ManualRefreshForces ==
    [][/\ \A c \in Callers :
            /\ refresh_teams_cache_endpoint(c) =>
                  callers'[c].pc \in {"fetching", "waiting"}
            /\ (callers[c].op = "refresh_teams" /\ callers'[c].pc = "idle") =>
                  callers[c].pc \in {"idle", "fetching"}
            /\ \A outcome \in TeamOutcomes :
                  ( /\ callers[c].op = "refresh_teams"
                    /\ outcome.kind = "ok"
                    /\ update_team_cache(c, outcome) ) =>
                      /\ team_cache' = NewCache(outcome.teams)
                      /\ last_update_time' = now
                      /\ callers'[c].resp =
                            [kind |-> "refreshed",
                             value |-> Cardinality(DOMAIN NewCache(outcome.teams))]
       /\ listCalls' - listCalls =
            Cardinality({c \in {Lifespan} \cup Callers :
                            callers[c].pc # "fetching" /\ callers'[c].pc = "fetching"})]_vars

\* the manual refresh has its GET /teams in flight although the cache is
\* filled and younger than 24 hours
C31_Witness ==
    /\ ~NeedsUpdate
    /\ \E c \in Callers :
          callers[c].op = "refresh_teams" /\ callers[c].pc = "fetching"

\* ------------------------------------ one conversation over several messages
\* what conversation 1 sends: customer messages, and updates of the
\* conversation itself
SessionEnvelopes ==
    FlowEnvelopes
    \cup {w \in ConversationEnvelopes :
            /\ w.event \in {"conversation_created", "conversation_updated"}
            /\ w.conversation.present
            /\ w.conversation.id = "1"}

\* conversation 1 after its first two customer messages were ingested before
\* a worker took up either job: its Dialogue without an assistant id, the two
\* relay jobs enqueued
InitSession ==
    /\ rows = {Dialogue(1, "1", Null, "open", Null)}
    /\ nextId = 2
    /\ handlers = [h \in Handlers |-> IdleHandler]
    /\ jobs = <<NewJob(<<"H", "i">>, Null, "1", "open", "1"),
                NewJob(<<"H", "i">>, Null, "1", "open", "1")>>
    /\ scheduled = <<>>
    /\ nEvents = 0
    /\ deletions = <<>>
    /\ TeamsAtImport

\* further requests arrive one after the other while the workers run the jobs
NextSession ==
    \/ \E h \in Handlers, w \in SessionEnvelopes :
          NoneInFlight /\ chatwoot_webhook(h, w, TRUE)
    \/ \E h \in Handlers : MessageCreatedCommit(h, TRUE, TRUE)
    \/ \E h \in Handlers : ConversationUpsertCommit(h)
    \/ \E j \in JobIds, http \in FlowOutcomes :
          process_message_with_dify(j, http, TRUE, TRUE, TRUE)
    \/ \E j \in JobIds : update_dialogue_dify_id_read(j)
    \/ \E j \in JobIds : update_dialogue_dify_id_commit(j)

SpecSession == InitSession /\ [][NextSession]_vars

\* the Dialogue of helpdesk conversation cw holds assistant conversation id a
Stored(cw, a) == \E r \in rows : r.cw = cw /\ r.dify = a

\* handler h commits the upsert of any of the three upserting events
AnyUpsertCommitted(h) ==
    /\ handlers[h].pc = "selected"
    /\ handlers[h].req.event \in
          {"message_created", "conversation_created", "conversation_updated"}
    /\ handlers'[h].pc = "idle"

\* C32: once the Dialogue of a helpdesk conversation holds an assistant
\* conversation id, every relay job enqueued for that conversation from then
\* on is started with that id: of two jobs of one conversation, the later one
\* carries the id the earlier one was started with, if it had one; and no
\* upsert made for message_created, conversation_created or
\* conversation_updated changes or clears a stored id. (No Dialogue is deleted
\* in this specification.)
C32_SessionContinuity ==
    [][/\ \A i, j \in 1..Len(jobs') :
            (i < j /\ jobs'[i].cw = jobs'[j].cw /\ Truthy(jobs'[i].dify)) =>
                jobs'[j].dify = jobs'[i].dify
       /\ \A h \in Handlers : AnyUpsertCommitted(h) =>
            \A r \in rows : \E r2 \in rows' : r2.id = r.id /\ r2.dify = r.dify]_vars

\* C33: a relay job that the sentinel guard skipped, or whose last call to the
\* assistant failed, never ends in the succeeded state, so that its success
\* continuation is never run on a payload without an answer.
C33_ContinuationOnlyWithAnswer ==
    \A j \in JobIds :
        ( \/ IsSentinel(StrText(jobs[j].msg))
          \/ jobs[j].lastHttp \in {"404", "500", "transport", "crash"} ) =>
            /\ jobs[j].pc # "SUCCESS"
            /\ jobs[j].link \notin {"ok", "failed"}

\* job j was started without an assistant id and the assistant opened a
\* conversation for it
Created(j) ==
    /\ ~Truthy(jobs[j].dify)
    /\ jobs[j].result.kind = "reply"
    /\ Truthy(jobs[j].result.cid)

\* job j has finished and no Dialogue of its helpdesk conversation refers to
\* the assistant conversation opened for it
Orphaned(j) ==
    /\ Created(j)
    /\ jobs[j].pc = "SUCCESS"
    /\ ~Stored(jobs[j].cw, jobs[j].result.cid)

\* C34: for one helpdesk conversation, two relay jobs never both have the
\* assistant open a conversation (both called without a conversation id) so
\* that, when both have finished, one of the two assistant conversations is
\* referenced by no Dialogue.
C34_OneAssistantConversation ==
    \A i, j \in JobIds :
        (i # j /\ jobs[i].cw = jobs[j].cw /\ Created(i) /\ Created(j)
           /\ jobs[i].pc = "SUCCESS" /\ jobs[j].pc = "SUCCESS") =>
            ~Orphaned(i) /\ ~Orphaned(j)

\* --------------------------------- a conversation deleted while it is answered
\* what conversation 1 sends: customer messages, and its own deletion
RaceEnvelopes ==
    FlowEnvelopes
    \cup {w \in ConversationEnvelopes :
            /\ w.event = "conversation_deleted"
            /\ w.conversation.present
            /\ w.conversation.id = "1"
            /\ w.conversation.status = "open"}

\* requests arrive one after the other while the workers run the jobs and the
\* background deletions
NextRace ==
    \/ \E h \in Handlers, w \in RaceEnvelopes :
          NoneInFlight /\ chatwoot_webhook(h, w, TRUE)
    \/ \E h \in Handlers : MessageCreatedCommit(h, TRUE, TRUE)
    \/ \E h \in Handlers : ConversationDeletedCommit(h)
    \/ \E j \in JobIds, http \in FlowOutcomes :
          process_message_with_dify(j, http, TRUE, TRUE, TRUE)
    \/ \E j \in JobIds : update_dialogue_dify_id_read(j)
    \/ \E j \in JobIds : update_dialogue_dify_id_commit(j)
    \/ \E j \in JobIds, sendOk \in BOOLEAN : handle_dify_response(j, sendOk)
    \/ \E http \in DeleteOutcomes : delete_dify_conversation(http)

SpecRace == InitEmpty /\ [][NextRace]_vars

\* the deletion of helpdesk conversation cw has been handled and its Dialogue
\* is gone
Deleted(cw) ==
    /\ Matching(cw) = {}
    /\ \E h \in Handlers :
          handlers[h].resp = Response("success", "scheduled for deletion", 0)

\* job j and its continuation have finished, and no request is in flight
AllFinished(j) ==
    /\ j \in JobIds
    /\ jobs[j].pc \in {"SUCCESS", "FAILURE"}
    /\ jobs[j].link # "none"
    /\ NoneInFlight

\* C35: when conversation_deleted is handled while a relay job of that
\* conversation, started without an assistant id, is still in progress, then
\* once the job and its continuation have finished a downstream deletion has
\* been scheduled for the assistant conversation id the job obtained, and no
\* reply is relayed to the helpdesk conversation after its deletion.
C35_NoOrphanAfterDeletion ==
    [][\A j \in 1..Len(jobs') :
          /\ (Deleted("1")' /\ AllFinished(j)' /\ Created(j)' /\ jobs'[j].cw = "1") =>
                \E i \in 1..Len(scheduled') : scheduled'[i] = jobs'[j].result.cid
          /\ (Deleted("1") /\ j \in JobIds /\ jobs[j].cw = "1") =>
                jobs'[j].relayed = jobs[j].relayed]_vars

\* --------------------------------------- relay jobs started with any arguments
\* the task called directly, with or without a prior assistant id and a
\* helpdesk conversation id
apply_async_direct(dify, cw, st) ==
    /\ Len(jobs) < 2
    /\ \A j \in JobIds : <<jobs[j].dify, jobs[j].cw>> # <<dify, cw>>
    /\ jobs' = Append(jobs, NewJob(<<"H", "i">>, dify, cw, st, cw))
    /\ UNCHANGED <<rows, nextId, handlers, scheduled, nEvents, deletions, teamVars>>

\* what the assistant answers a directly called job with: an answer with any
\* conversation id or none, or something the client cannot read
DirectOutcomes ==
    {o \in HttpOutcomes : o.kind = "crash" \/ (o.kind = "ok" /\ o.answer = "Hi")}

NextDirect ==
    \/ \E st \in {"open", "pending"} :
          \/ apply_async_direct("A1", "1", st)
          \/ apply_async_direct(Null, Null, st)
          \/ apply_async_direct(Null, "1", st)
    \/ \E j \in JobIds, http \in DirectOutcomes, toggleOk, noteOk, sendOk \in BOOLEAN :
          process_message_with_dify(j, http, toggleOk, noteOk, sendOk)
    \/ \E j \in JobIds : update_dialogue_dify_id_read(j)
    \/ \E j \in JobIds : update_dialogue_dify_id_commit(j)

SpecDirect == Init /\ [][NextDirect]_vars

\* C36: a relay job started with a prior assistant conversation id never
\* reaches the store update, whatever conversation id the assistant's answer
\* carries; neither does a job started without a helpdesk conversation id,
\* which, when it fails, makes no call to the helpdesk either (no status
\* change, no note, no apology); the Dialogue table changes only by the commit
\* of a job started without an assistant id and with a helpdesk conversation id.
C36_NoStoreWrite ==
    [][\A j \in 1..Len(jobs') :
          LET job == jobs'[j]
          IN  /\ (Truthy(job.dify) \/ ~Truthy(job.cw)) =>
                    /\ job.pc \notin {"update_read", "update_commit"}
                    /\ job.target = 0
              /\ rows' # rows =>
                    \E k \in JobIds :
                        /\ jobs[k].pc = "update_commit" /\ jobs'[k].pc = "SUCCESS"
                        /\ ~Truthy(jobs[k].dify) /\ Truthy(jobs[k].cw)
              /\ ~Truthy(job.cw) =>
                    /\ job.opens = 0 /\ job.notes = 0 /\ job.apologies = 0
                    /\ ~job.refused]_vars

\* a job started with A1 was answered with conversation id A2 and the table
\* still says A1, while a job without a helpdesk conversation id has failed
C36_Witness ==
    /\ \E j \in JobIds :
          /\ jobs[j].dify = "A1" /\ jobs[j].result.cid = "A2"
          /\ jobs[j].pc = "SUCCESS"
    /\ \E j \in JobIds :
          /\ jobs[j].cw = Null /\ jobs[j].pc = "FAILURE" /\ jobs[j].exc = "Exception"
    /\ \E r \in rows : r.cw = "1" /\ r.dify = "A1"

\* ------------------------------------ the failure path's note and its echo
\* a customer message of conversation 1, open or pending
NoteMessages ==
    {w \in Envelopes :
        /\ w.event = "message_created"
        /\ w.sender_type = "user"
        /\ w.content = <<"H", "i">>
        /\ w.message.id = "1"
        /\ w.conversation = w.message}

\* the helpdesk reports the internal note back as a message_created event
NoteEchoes ==
    {w \in Envelopes :
        /\ w.event = "message_created"
        /\ w.content = BOT_ERROR_MESSAGE_INTERNAL
        /\ w.message.id = "1"
        /\ w.conversation = w.message}

\* the assistant answers, or answers something the client cannot read
NoteOutcomes ==
    {o \in HttpOutcomes : o.kind = "crash" \/ (o.kind = "ok" /\ o.cid = "A1" /\ o.answer = "Hi")}

NextNote ==
    \/ \E h \in Handlers, w \in NoteMessages :
          NoneInFlight /\ chatwoot_webhook(h, w, TRUE)
    \/ \E h \in Handlers, w \in NoteEchoes :
          /\ NoneInFlight
          /\ \E j \in JobIds : jobs[j].notes > 0
          /\ chatwoot_webhook(h, w, TRUE)
    \/ \E h \in Handlers : MessageCreatedCommit(h, TRUE, TRUE)
    \/ \E j \in JobIds, http \in NoteOutcomes, toggleOk, noteOk, sendOk \in BOOLEAN :
          process_message_with_dify(j, http, toggleOk, noteOk, sendOk)
    \/ \E j \in JobIds : update_dialogue_dify_id_read(j)
    \/ \E j \in JobIds : update_dialogue_dify_id_commit(j)

SpecNote == InitEmpty /\ [][NextNote]_vars

\* C37: when the failure path of a relay job has set the conversation to open,
\* the private internal note is posted exactly when the job's status argument
\* was pending (and the helpdesk accepts the note); whether or not the note
\* could be posted, the public apology is posted when the helpdesk accepts it;
\* and a message_created event that carries the note's text is answered as
\* skipped without a database query and without a new relay job.
C37_FailureNote ==
    [][/\ \A j \in JobIds, http \in NoteOutcomes, toggleOk, noteOk, sendOk \in BOOLEAN :
            ( /\ process_message_with_dify(j, http, toggleOk, noteOk, sendOk)
              /\ jobs'[j].opens = jobs[j].opens + 1 ) =>
                /\ jobs'[j].notes = jobs[j].notes + 1 <=>
                      (jobs[j].status = "pending" /\ noteOk)
                /\ jobs'[j].notes \in {jobs[j].notes, jobs[j].notes + 1}
                /\ jobs'[j].apologies = jobs[j].apologies + (IF sendOk THEN 1 ELSE 0)
       /\ \A h \in Handlers, w \in NoteEchoes :
            chatwoot_webhook(h, w, TRUE) =>
                /\ handlers'[h].pc = "idle"
                /\ handlers'[h].resp.status = "skipped"
                /\ jobs' = jobs]_vars

\* a pending conversation's job failed, the note and the apology were posted,
\* and the note's echo was skipped
C37_Witness ==
    /\ Len(jobs) = 1
    /\ jobs[1].status = "pending" /\ jobs[1].pc = "FAILURE"
    /\ jobs[1].opens = 1 /\ jobs[1].notes = 1 /\ jobs[1].apologies = 1
    /\ \E h \in Handlers :
          handlers[h].resp = Response("skipped", "agent_bot status/error message", 0)

\* C38: when the last successful refresh of the team cache is less than 24
\* hours old, get_team_id answers at once from the cached snapshot, with the id
\* stored under the lower-cased name or with no id when the name is unknown,
\* and sends no GET /teams and waits for none, also when the refreshed list was
\* empty.
C38_FreshCacheAnswers ==
    [][\A c \in Callers, team_name \in TeamNames :
          ( /\ get_team_id(c, team_name)
            /\ last_update_time > 0
            /\ now - last_update_time < CacheHours ) =>
              /\ listCalls' = listCalls
              /\ callers'[c].pc = "idle"
              /\ callers'[c].resp =
                    [kind |-> "id", value |-> CacheGet(team_cache, team_name)]
              /\ Lower(team_name) \notin DOMAIN team_cache =>
                    callers'[c].resp.value = Null]_vars

====
